---- MODULE Spec2Model ----
(***************************************************************************)
(* image-go: batch upload (internal/batch/handler.go), the RabbitMQ        *)
(* consumer loop (internal/pubsub, SubscribeJSON) and the worker's         *)
(* ProcessImage handler (internal/image/service.go) over the images and    *)
(* batches tables and the S3 bucket.                                       *)
(*                                                                         *)
(* ProcessImage is split at its I/O calls (record store, blob store), so   *)
(* that HTTP requests interleave with a running invocation.  The calls to  *)
(* external services (PostgreSQL, S3, RabbitMQ) fail nondeterministically. *)
(* One upload request is followed from its arrival to the last delivery of *)
(* its tasks; requests share nothing but the tables and the bucket, whose  *)
(* rows and objects every statement addresses by id or key.                *)
(***************************************************************************)
EXTENDS Integers, Sequences, FiniteSets, TLC

\* ------------------------------------------------------------------ bounds
MaxFiles == 2        \* files of the upload request
MaxDeliveries == 2   \* task deliveries the broker makes in one behaviour
MaxBacklog == 5      \* messages that are no JSON task, queued at worker start
MaxBaseSide == 2     \* base image sides, in hundreds of pixels
MaxWmSide == 11      \* watermark sides, in pixels
ChannelStep == 51    \* distance between the 8-bit channel values tried
MaxSmallSide == 8    \* sides of the base images composed pixel by pixel
MaxTokenLen == 3     \* characters after the head of an Authorization value
MaxLogins == 2       \* login requests made in one behaviour
MaxUsers == 2        \* users that send requests
MaxRefresh == 2      \* values GenerateRefresh draws from

\* ------------------------------------------------------- program constants
PrefetchCount == 5
MaskAlpha == 128
StatusOK == 200
StatusCreated == 201
StatusBadRequest == 400
StatusUnauthorized == 401
StatusInternalServerError == 500

S3CfDistribution == "cdn"

Ack == "Ack"
NackRequeue == "NackRequeue"
NackDiscard == "NackDiscard"
AckType == {Ack, NackRequeue, NackDiscard}
NoAck == "none"

ImageStatusPending == "pending"
ImageStatusProcessing == "processing"
ImageStatusCompleted == "completed"
ImageStatusFailed == "failed"
ImageStatus ==
  {ImageStatusPending, ImageStatusProcessing, ImageStatusCompleted, ImageStatusFailed}

\* Declared Content-Type of an uploaded part; "" does not parse.
MediaTypes == {"image/jpeg", "image/png", "image/gif", ""}

\* What the bytes of a blob are: a decodable image, bytes image.Decode
\* rejects, or a decodable image jpeg.Encode rejects (a side of 65536+).
Content == {"ok", "corrupt", "toolarge"}

\* ------------------------------------------------------------------- keys
\* An object key "<prefix>/<name><ext>": the directory and the random name.
\* The extension is fixed by the media type and read by no code, so a key
\* is told apart by its name alone.  EmptyKey is the empty string "".
EmptyKey == [prefix |-> "", name |-> 0]

\* GetAssetPath draws 32 random bytes: a name no stored object carries.
GetAssetPath(store) ==
  CHOOSE n \in 1..(Cardinality(DOMAIN store) + 1) :
    \A k \in DOMAIN store : k.name # n

\* "raw/" + assetPath, "watermark/" + assetPath, "processed/" + assetPath
FileName(prefix, assetPath) == [prefix |-> prefix, name |-> assetPath]

\* GetObjectURL: "https://<distribution>/<key>".
GetObjectURL(cfDistribution, key) ==
  [scheme |-> "https", host |-> cfDistribution, path |-> key]

\* sql.NullString
NullString(s, valid) == [String |-> s, Valid |-> valid]
EmptyURL == [scheme |-> "", host |-> "", path |-> EmptyKey]
NullURL == NullString(EmptyURL, FALSE)

\* ------------------------------------------------------------------ state
VARIABLES
  batches,      \* batches table: id -> row
  images,       \* images table: id -> row
  blobs,        \* S3 bucket: key -> content
  nextBatchID,  \* gen_random_uuid() of batches
  nextImageID,  \* gen_random_uuid() of images
  req,          \* the upload request: its position, batch, loop state, response
  ready,        \* image_tasks queue at the broker
  msgCh,        \* deliveries handed to the consumer, not yet taken by the loop
  delivered,    \* number of task deliveries made
  dropped,      \* deliveries the consumer loop left without an answer
  uploaded,     \* raw key -> what Create did with the file it stored there
  transform,    \* the image transform of ProcessImage: its inputs and results
  auth,         \* authentication: a header and its token, the logins made
  del,          \* a DELETE /images/{id} request and its response
  pc,           \* position of the consumer goroutine
  m,            \* the ImageTask being processed
  img,          \* row returned by GetImageByID
  fileName,     \* key generated for the processed blob
  ackType,      \* value ProcessImage returns
  reads,        \* keys GetObject was called with in this invocation
  writes,       \* keys PutObject was called with in this invocation
  updates,      \* UpdateImageByID calls of this invocation: parameters, error
  failure       \* the call that failed in this invocation

queueVars == <<ready, msgCh, delivered, dropped>>
workerVars == <<pc, m, img, fileName, ackType, reads, writes, updates, failure>>
vars == <<batches, images, blobs, nextBatchID, nextImageID, req, ready, msgCh,
          delivered, dropped, uploaded, transform, auth, del, pc, m, img, fileName,
          ackType, reads, writes, updates, failure>>

programVars ==
  <<batches, images, blobs, nextBatchID, nextImageID, req, ready, msgCh,
    delivered, dropped, uploaded, pc, m, img, fileName, ackType, reads, writes,
    updates, failure>>

\* json.Marshal of an ImageTask, the body PublishJSON sends: {"image_id": id}
Marshal(task) == [json |-> TRUE, image_id |-> task.ImageID]

\* json.Unmarshal(m.Body, &msg) and whether it returns an error
UnmarshalOK(body) == body.json
Unmarshal(body) == [ImageID |-> body.image_id]

\* A body json.Unmarshal rejects.
Malformed == [json |-> FALSE, image_id |-> 0]

\* The image_tasks queue when the worker starts consuming: empty, or holding
\* MaxBacklog messages that are no JSON task, or one less.
Backlog ==
  {<<>>} \cup {[i \in 1..n |-> Malformed] : n \in {MaxBacklog - 1, MaxBacklog}}

NoTask == [ImageID |-> 0]
NoRow ==
  [id |-> 0, batch_id |-> 0, key |-> EmptyKey, processed_url |-> NullURL,
   status |-> ImageStatusPending, watermark_key |-> NullString(EmptyKey, FALSE)]

\* The transform at rest: no sizes, no pixels, no results.
NoRect ==
  [targetWidth |-> 0, targetHeight |-> 0, padding |-> 0, watermarkX |-> 0,
   watermarkY |-> 0]
NoPixel == [c |-> 0, a |-> 0]
NoPoint == [x |-> 0, y |-> 0]
NoJpeg == [err |-> FALSE, sof |-> <<>>]
NoTransform ==
  [pc |-> "none", baseWidth |-> 0, baseHeight |-> 0, hasWatermark |-> FALSE,
   wWidth |-> 0, wHeight |-> 0, at |-> NoPoint, d |-> NoPixel, s |-> NoPixel,
   rect |-> NoRect, src |-> NoPixel, out |-> NoPixel, dstWidth |-> 0, dstHeight |-> 0,
   jpeg |-> NoJpeg]

\* No header examined, no login made.
NoAuth ==
  [pc |-> "none", headers |-> <<>>, token |-> <<>>, err |-> "",
   refresh_tokens |-> {}, logins |-> <<>>]

\* No DELETE /images/{id} request followed.
NoDelete == [pc |-> "none", userID |-> 0, imageID |-> 0, fault |-> "none", status |-> 0]

Init ==
  /\ batches = <<>>
  /\ images = <<>>
  /\ blobs = <<>>
  /\ nextBatchID = 1
  /\ nextImageID = 1
  /\ req = [pc |-> "new", userID |-> 1, batch |-> 0, left |-> 0, count |-> 0,
            status |-> 0, wmJpegOrPng |-> TRUE]
  /\ ready \in Backlog
  /\ msgCh = <<>>
  /\ delivered = 0
  /\ dropped = 0
  /\ uploaded = <<>>
  /\ transform = NoTransform
  /\ auth = NoAuth
  /\ del = NoDelete
  /\ pc = "idle"
  /\ m = NoTask
  /\ img = NoRow
  /\ fileName = EmptyKey
  /\ ackType = NoAck
  /\ reads = {}
  /\ writes = {}
  /\ updates = {}
  /\ failure = "none"

\* f with key k bound to v (a row inserted, an object put)
Put(f, k, v) == [x \in DOMAIN f \cup {k} |-> IF x = k THEN v ELSE f[x]]
\* f without the keys in ks
Drop(f, ks) == [x \in DOMAIN f \ ks |-> f[x]]

\* ------------------------------------------------- POST /batches (Create)
\* the mutant: every type that parses is taken
SupportedMutant(mediaType) == mediaType # ""

\* mediaType != "image/jpeg" && mediaType != "image/png" rejects
Supported(mediaType) == mediaType = "image/jpeg" \/ mediaType = "image/png"

\* The request and the faults of the calls made before the file loop.  A
\* field the code never reads on the path taken is fixed to one value.
CreateInputs ==
  {in \in [nFiles : 0..MaxFiles, nWatermarks : 0..2, wmType : MediaTypes,
           wmContent : Content,
           fault : {"none", "channel", "form", "open", "put", "createBatch"}] :
     /\ in.fault \in {"channel", "form"} => in.nFiles = 1 /\ in.nWatermarks = 0
     /\ in.nFiles = 0 => in.nWatermarks = 0 /\ in.fault = "none"
     /\ in.nWatermarks = 2 => in.fault = "none"
     /\ in.nWatermarks # 1 => in.wmType = "image/png" /\ in.wmContent = "ok"
     /\ in.nWatermarks # 1 => in.fault \notin {"open", "put"}
     /\ in.fault = "open" => in.wmType = "image/png"
     /\ ~Supported(in.wmType) => in.fault \in {"none", "open"}
     /\ (~Supported(in.wmType) \/ in.fault \in {"open", "put", "createBatch"})
          => in.wmContent = "ok"
     \* the watermark is only ever decoded and scaled down, never encoded
     /\ in.wmContent # "toolarge"}

\* Create up to and including CreateBatch: the status of an early return
\* (0 when the handler goes on to the file loop), whether the watermark was
\* put, and the watermark key and URL handed to CreateBatch.
CreateHead(in, store) ==
  LET wmFile == FileName("watermark", GetAssetPath(store))
      early(status) ==
        [status |-> status, put |-> FALSE, batch |-> FALSE,
         watermarkKey |-> EmptyKey, watermarkURL |-> EmptyURL]
  IN
  IF in.fault = "channel" THEN early(StatusInternalServerError)
  ELSE IF in.fault = "form" THEN early(StatusBadRequest)
  ELSE IF in.nFiles = 0 THEN early(StatusBadRequest)
  ELSE IF in.nWatermarks > 1 THEN early(StatusBadRequest)
  ELSE IF in.nWatermarks = 1 /\ in.fault = "open" THEN early(StatusInternalServerError)
  ELSE IF in.nWatermarks = 1 /\ in.wmType = "" THEN early(StatusBadRequest)
  ELSE IF in.nWatermarks = 1 /\ ~Supported(in.wmType) THEN early(StatusBadRequest)
  ELSE IF in.nWatermarks = 1 /\ in.fault = "put" THEN early(StatusInternalServerError)
  ELSE
    [status |-> IF in.fault = "createBatch" THEN StatusInternalServerError ELSE 0,
     put |-> in.nWatermarks = 1,
     batch |-> in.fault # "createBatch",
     watermarkKey |-> IF in.nWatermarks = 1 THEN wmFile ELSE EmptyKey,
     watermarkURL |-> IF in.nWatermarks = 1
                      THEN GetObjectURL(S3CfDistribution, wmFile) ELSE EmptyURL]

\* CreateBatch as Create calls it: both watermark columns are passed with
\* Valid: true, whether or not a watermark was uploaded.
CreateBatchParams(watermarkKey, watermarkURL) ==
  [WatermarkKey |-> NullString(watermarkKey, TRUE),
   WatermarkUrl |-> NullString(watermarkURL, TRUE)]

\* INSERT INTO batches(user_id, name, watermark_key, watermark_url) RETURNING *
CreateBatch(id, userID, params) ==
  [id |-> id, user_id |-> userID, watermark_key |-> params.WatermarkKey,
   watermark_url |-> params.WatermarkUrl, deleted_at |-> FALSE]

CreateBegin ==
  /\ req.pc = "new"
  /\ \E in \in CreateInputs :
       LET head == CreateHead(in, blobs) IN
       /\ blobs' = IF head.put THEN Put(blobs, head.watermarkKey, in.wmContent)
                   ELSE blobs
       /\ IF head.batch
          THEN /\ batches' = Put(batches, nextBatchID,
                                 CreateBatch(nextBatchID, req.userID,
                                   CreateBatchParams(head.watermarkKey, head.watermarkURL)))
               /\ nextBatchID' = nextBatchID + 1
               /\ req' = [pc |-> "files", userID |-> req.userID,
                          batch |-> nextBatchID, left |-> in.nFiles,
                          count |-> 0, status |-> 0,
                          wmJpegOrPng |-> in.nWatermarks = 1 =>
                                            in.wmType \in {"image/jpeg", "image/png"}]
          ELSE /\ UNCHANGED <<batches, nextBatchID>>
               /\ req' = [req EXCEPT !.pc = "done", !.status = head.status,
                                     !.wmJpegOrPng =
                                        in.nWatermarks = 1 =>
                                          in.wmType \in {"image/jpeg", "image/png"}]
  /\ UNCHANGED <<images, nextImageID, uploaded, transform, auth, del>>
  /\ UNCHANGED queueVars
  /\ UNCHANGED workerVars

\* One uploaded file and the faults of the calls made for it.
FileInputs ==
  {f \in [mediaType : MediaTypes, content : Content,
          fault : {"none", "open", "put", "createImage", "publish"}] :
     /\ f.fault = "open" => f.mediaType = "image/png"
     /\ ~Supported(f.mediaType) => f.fault = "none"
     /\ (~Supported(f.mediaType) \/ f.fault # "none") => f.content = "ok"}

\* INSERT INTO images(batch_id, key, original_url) RETURNING *
CreateImage(id, batchID, key, originalURL) ==
  [id |-> id, batch_id |-> batchID, key |-> key, original_url |-> originalURL,
   processed_url |-> NullURL, status |-> ImageStatusPending, deleted_at |-> FALSE]

\* One iteration of the loop over the uploaded files.
CreateFile ==
  /\ req.pc = "files"
  /\ req.left > 0
  /\ \E f \in FileInputs :
       LET raw == FileName("raw", GetAssetPath(blobs))
           skipped == f.fault = "open" \/ f.mediaType = "" \/ ~Supported(f.mediaType)
           stored == ~skipped /\ f.fault # "put"
           saved == stored /\ f.fault # "createImage"
           published == saved /\ f.fault # "publish"
       IN
       /\ blobs' = IF stored THEN Put(blobs, raw, f.content) ELSE blobs
       /\ images' = IF saved
                    THEN Put(images, nextImageID,
                             CreateImage(nextImageID, req.batch, raw,
                                         GetObjectURL(S3CfDistribution, raw)))
                    ELSE images
       /\ nextImageID' = IF saved THEN nextImageID + 1 ELSE nextImageID
       /\ ready' = IF published
                   THEN Append(ready, Marshal([ImageID |-> nextImageID])) ELSE ready
       /\ uploaded' = IF stored
                      THEN Put(uploaded, raw,
                               [jpegOrPng |-> f.mediaType \in {"image/jpeg", "image/png"},
                                recorded |-> saved,
                                tasks |-> IF published THEN 1 ELSE 0])
                      ELSE uploaded
       /\ req' = [req EXCEPT !.left = @ - 1,
                             !.count = IF published THEN @ + 1 ELSE @]
  /\ UNCHANGED <<batches, nextBatchID, msgCh, delivered, dropped, transform, auth, del>>
  /\ UNCHANGED workerVars

\* DELETE FROM batches WHERE id = $1 AND user_id = $2; images go with it
\* (ON DELETE CASCADE).
HardDeleteBatchByID(id, userID) ==
  LET gone == {b \in DOMAIN batches : b = id /\ batches[b].user_id = userID} IN
  /\ batches' = Drop(batches, gone)
  /\ images' = Drop(images, {i \in DOMAIN images : images[i].batch_id \in gone})

\* The end of Create: roll the batch back when no image was accepted.  The
\* error of HardDeleteBatchByID is dropped.
CreateRespond ==
  /\ req.pc = "files"
  /\ req.left = 0
  /\ IF req.count = 0
     THEN /\ \E dbErr \in BOOLEAN :
               IF dbErr THEN UNCHANGED <<batches, images>>
               ELSE HardDeleteBatchByID(req.batch, req.userID)
          /\ req' = [req EXCEPT !.pc = "done", !.status = StatusBadRequest]
     ELSE /\ UNCHANGED <<batches, images>>
          /\ req' = [req EXCEPT !.pc = "done", !.status = StatusCreated]
  /\ UNCHANGED <<blobs, nextBatchID, nextImageID, uploaded, transform, auth, del>>
  /\ UNCHANGED queueVars
  /\ UNCHANGED workerVars

\* -------------------------------------------- DELETE /images/{id}, /batches/{id}
\* c.Get("userID"): the users the Authenticated middleware lets through
Users == 1..MaxUsers

\* the mutant: the query without b.user_id = $1
GetAllUserBatchesMutant(userID) ==
  {b \in DOMAIN batches :
     /\ ~batches[b].deleted_at
     /\ \E i \in DOMAIN images : images[i].batch_id = b /\ ~images[i].deleted_at}

\* GetAllUserBatches: the caller's batches that are not deleted and have at
\* least one image that is not deleted (INNER JOIN).
GetAllUserBatches(userID) ==
  {b \in DOMAIN batches :
     /\ batches[b].user_id = userID
     /\ ~batches[b].deleted_at
     /\ \E i \in DOMAIN images : images[i].batch_id = b /\ ~images[i].deleted_at}

\* UPDATE images SET deleted_at = NOW() WHERE id = $1 AND batch_id = ANY($2)
DeleteImageByID(rows, id, batchIDs) ==
  [i \in DOMAIN rows |->
     IF i = id /\ rows[i].batch_id \in batchIDs
     THEN [rows[i] EXCEPT !.deleted_at = TRUE] ELSE rows[i]]

\* ImageHandler.DeleteByID: the response and the images table after it.  An
\* imageID of 0 is a path parameter uuid.Parse rejects.
DeleteByID(userID, imageID, fault) ==
  IF imageID = 0 THEN [status |-> StatusBadRequest, images |-> images]
  ELSE IF fault = "list"
  THEN [status |-> StatusInternalServerError, images |-> images]
  ELSE IF fault = "delete"
  THEN [status |-> StatusInternalServerError, images |-> images]
  ELSE [status |-> StatusOK,
        images |-> DeleteImageByID(images, imageID, GetAllUserBatches(userID))]

\* A DELETE /images/{id} request that changes the table.
ImageDeleteByID ==
  /\ \E userID \in Users : \E id \in 1..nextImageID :
       images' = DeleteByID(userID, id, "none").images
  /\ images' # images
  /\ UNCHANGED <<batches, blobs, nextBatchID, nextImageID, req, uploaded, transform, auth, del>>
  /\ UNCHANGED queueVars
  /\ UNCHANGED workerVars

\* UPDATE batches SET deleted_at = NOW() WHERE id = $1 AND user_id = $2
BatchDeleteByID ==
  /\ \E userID \in Users : \E id \in DOMAIN batches :
       /\ batches[id].user_id = userID
       /\ ~batches[id].deleted_at
       /\ batches' = [batches EXCEPT ![id].deleted_at = TRUE]
  /\ UNCHANGED <<images, blobs, nextBatchID, nextImageID, req, uploaded, transform, auth, del>>
  /\ UNCHANGED queueVars
  /\ UNCHANGED workerVars

\* ---------------------------------------------------------- record store
\* SELECT i.*, b.watermark_url, b.watermark_key FROM images i INNER JOIN
\* batches b ... WHERE i.id = $1 AND i.deleted_at IS NULL AND b.deleted_at IS NULL
GetImageByIDFoundMutant(id) ==
  /\ id \in DOMAIN images
  /\ images[id].batch_id \in DOMAIN batches
  /\ ~batches[images[id].batch_id].deleted_at

GetImageByIDFound(id) ==
  /\ id \in DOMAIN images
  /\ ~images[id].deleted_at
  /\ images[id].batch_id \in DOMAIN batches
  /\ ~batches[images[id].batch_id].deleted_at

GetImageByID(id) ==
  [id |-> images[id].id, batch_id |-> images[id].batch_id, key |-> images[id].key,
   processed_url |-> images[id].processed_url, status |-> images[id].status,
   watermark_key |-> batches[images[id].batch_id].watermark_key]

UpdateImageByIDParams(id, processedUrl, status) ==
  [ID |-> id, ProcessedUrl |-> processedUrl, Status |-> status]

\* the statement with processed_url = COALESCE($1, processed_url)
UpdateImageByIDMutant(rows, arg) ==
  [i \in DOMAIN rows |->
     IF i = arg.ID /\ ~rows[i].deleted_at
     THEN [rows[i] EXCEPT !.processed_url =
                            IF arg.ProcessedUrl.Valid THEN arg.ProcessedUrl ELSE @,
                          !.status = arg.Status]
     ELSE rows[i]]

\* the statement without AND deleted_at IS NULL
UpdateImageByIDAnyMutant(rows, arg) ==
  [i \in DOMAIN rows |->
     IF i = arg.ID
     THEN [rows[i] EXCEPT !.processed_url = arg.ProcessedUrl, !.status = arg.Status]
     ELSE rows[i]]

\* UPDATE images SET processed_url = $1, status = $2 WHERE id = $3 AND
\* deleted_at IS NULL
UpdateImageByID(rows, arg) ==
  [i \in DOMAIN rows |->
     IF i = arg.ID /\ ~rows[i].deleted_at
     THEN [rows[i] EXCEPT !.processed_url = arg.ProcessedUrl, !.status = arg.Status]
     ELSE rows[i]]

\* A call of UpdateImageByID whose error is dropped: the statement runs, or
\* the record store fails and no row changes.
TryUpdate(arg) ==
  \E dbErr \in BOOLEAN :
    /\ updates' = updates \cup {[arg |-> arg, err |-> dbErr]}
    /\ images' = IF dbErr THEN images ELSE UpdateImageByID(images, arg)

\* ------------------------------------------------------------ the broker
\* Deliveries the consumer holds without having answered them: those in
\* the channel, the one being handled, and those the loop went past.
Unacked == Len(msgCh) + (IF pc = "idle" THEN 0 ELSE 1) + dropped

\* ProcessImage invocations in progress: the loop calls the handler inline.
Running == IF pc \in {"idle", "ack"} THEN 0 ELSE 1

QosAllowsMutant(unacked) == TRUE

\* ch.Qos(5, 0, false): the broker holds deliveries back while the consumer
\* has PrefetchCount of them unanswered.
QosAllows(unacked) == unacked < PrefetchCount

\* The broker pushes the next message to the consumer, within the Qos credit.
Deliver ==
  /\ ready # <<>>
  /\ QosAllows(Unacked)
  /\ UnmarshalOK(Head(ready)) => delivered < MaxDeliveries
  /\ msgCh' = Append(msgCh, Head(ready))
  /\ ready' = Tail(ready)
  /\ delivered' = IF UnmarshalOK(Head(ready)) THEN delivered + 1 ELSE delivered
  /\ UNCHANGED <<batches, images, blobs, nextBatchID, nextImageID, req, dropped,
                 uploaded, transform, auth, del>>
  /\ UNCHANGED workerVars

\* the mutant: the handler is started for a delivery while it is running
\* for the one before ("go handler(msg)")
ReceiveMutant ==
  /\ pc # "ack"
  /\ msgCh # <<>>
  /\ msgCh' = Tail(msgCh)
  /\ IF UnmarshalOK(Head(msgCh))
     THEN /\ m' = Unmarshal(Head(msgCh))
          /\ pc' = "GetImageByID"
          /\ UNCHANGED dropped
     ELSE /\ dropped' = dropped + 1
          /\ UNCHANGED <<m, pc>>
  /\ UNCHANGED <<batches, images, blobs, nextBatchID, nextImageID, req, ready,
                 delivered, uploaded, transform, auth, del>>
  /\ UNCHANGED <<img, fileName, ackType, reads, writes, updates, failure>>

\* for m := range msgCh { json.Unmarshal; on error: continue; handler(msg) }
Receive ==
  /\ pc = "idle"
  /\ msgCh # <<>>
  /\ msgCh' = Tail(msgCh)
  /\ IF UnmarshalOK(Head(msgCh))
     THEN /\ m' = Unmarshal(Head(msgCh))
          /\ pc' = "GetImageByID"
          /\ UNCHANGED dropped
     ELSE /\ dropped' = dropped + 1
          /\ UNCHANGED <<m, pc>>
  /\ UNCHANGED <<batches, images, blobs, nextBatchID, nextImageID, req, ready,
                 delivered, uploaded, transform, auth, del>>
  /\ UNCHANGED <<img, fileName, ackType, reads, writes, updates, failure>>

\* ------------------------------------------------------------ blob store
\* GetObject answers with the object when it is stored and S3 is reachable.
GetObjectOK(key, s3Err) == ~s3Err /\ key \in DOMAIN blobs

\* image.Decode of a fetched body: it fails on bytes that are no JPEG or PNG
\* and on a body cut short while it is streamed.
DecodeOK(key, truncated) == ~truncated /\ blobs[key] # "corrupt"

\* jpeg.Encode into a bytes.Buffer: it fails on an image it cannot hold.
EncodeOK(key) == blobs[key] # "toolarge"

\* ----------------------------------------------------------- ProcessImage
\* the mutant: the handler starts over instead of returning
ReturnMutant(a, failed) ==
  /\ ackType' = a
  /\ failure' = failed
  /\ pc' = "GetImageByID"

\* return <ackType>, after the call named by `failed` went wrong
Return(a, failed) ==
  /\ ackType' = a
  /\ failure' = failed
  /\ pc' = "ack"

LoadFailureAckMutant == NackRequeue
LoadFailureAck == NackDiscard
LoadFailureStatus == ImageStatusFailed

\* img, err := dbQueries.GetImageByID(ctx, m.ImageID)
LoadImage ==
  /\ pc = "GetImageByID"
  /\ \E dbErr \in BOOLEAN :
       IF ~dbErr /\ GetImageByIDFound(m.ImageID)
       THEN /\ img' = GetImageByID(m.ImageID)
            /\ pc' = "GetObject"
            /\ UNCHANGED <<images, updates, ackType, failure>>
       ELSE /\ TryUpdate(UpdateImageByIDParams(m.ImageID, NullURL, LoadFailureStatus))
            /\ Return(LoadFailureAck, "record")
            /\ UNCHANGED img
  /\ UNCHANGED <<batches, blobs, nextBatchID, nextImageID, req, uploaded, transform, auth, del>>
  /\ UNCHANGED queueVars
  /\ UNCHANGED <<m, fileName, reads, writes>>

BaseFailureStatusMutant == ImageStatusProcessing
BaseFailureAck == NackDiscard
BaseFailureStatus == ImageStatusFailed

\* if img.WatermarkKey.Valid { ... }
HasWatermark(row) == row.watermark_key.Valid

\* obj, err := cfg.S3Client.GetObject(... Key: img.Key)
GetBaseObject ==
  /\ pc = "GetObject"
  /\ reads' = reads \cup {img.key}
  /\ \E s3Err \in BOOLEAN :
       IF GetObjectOK(img.key, s3Err)
       THEN /\ pc' = IF HasWatermark(img) THEN "GetWatermark" ELSE "Decode"
            /\ UNCHANGED <<images, updates, ackType, failure>>
       ELSE /\ TryUpdate(UpdateImageByIDParams(m.ImageID, NullURL, BaseFailureStatus))
            /\ Return(BaseFailureAck, "base")
  /\ UNCHANGED <<batches, blobs, nextBatchID, nextImageID, req, uploaded, transform, auth, del>>
  /\ UNCHANGED queueVars
  /\ UNCHANGED <<m, img, fileName, writes>>

WatermarkFailureAckMutant == NackDiscard
WatermarkFailureAck == NackRequeue

\* watermarkObj, err := cfg.S3Client.GetObject(... Key: img.WatermarkKey.String)
GetWatermarkObject ==
  /\ pc = "GetWatermark"
  /\ reads' = reads \cup {img.watermark_key.String}
  /\ \E s3Err \in BOOLEAN :
       IF GetObjectOK(img.watermark_key.String, s3Err)
       THEN /\ pc' = "DecodeWatermark"
            /\ UNCHANGED <<ackType, failure>>
       ELSE Return(WatermarkFailureAck, "watermark")
  /\ UNCHANGED <<batches, images, blobs, nextBatchID, nextImageID, req, uploaded, transform, auth, del>>
  /\ UNCHANGED queueVars
  /\ UNCHANGED <<m, img, fileName, writes, updates>>

\* decodedImg, _, err := image.Decode(watermarkObj.Body)
DecodeWatermark ==
  /\ pc = "DecodeWatermark"
  /\ \E truncated \in BOOLEAN :
       IF DecodeOK(img.watermark_key.String, truncated)
       THEN /\ pc' = "Decode"
            /\ UNCHANGED <<ackType, failure>>
       ELSE Return(NackRequeue, "wmdecode")
  /\ UNCHANGED <<batches, images, blobs, nextBatchID, nextImageID, req, uploaded, transform, auth, del>>
  /\ UNCHANGED queueVars
  /\ UNCHANGED <<m, img, fileName, reads, writes, updates>>

TransformFailureStatusMutant == ImageStatusFailed
TransformFailureAck == NackRequeue
TransformFailureStatus == ImageStatusProcessing

\* decodedImg, _, err := image.Decode(obj.Body)
DecodeBase ==
  /\ pc = "Decode"
  /\ \E truncated \in BOOLEAN :
       IF DecodeOK(img.key, truncated)
       THEN /\ pc' = "Encode"
            /\ UNCHANGED <<images, updates, ackType, failure>>
       ELSE /\ TryUpdate(UpdateImageByIDParams(m.ImageID, NullURL, TransformFailureStatus))
            /\ Return(TransformFailureAck, "decode")
  /\ UNCHANGED <<batches, blobs, nextBatchID, nextImageID, req, uploaded, transform, auth, del>>
  /\ UNCHANGED queueVars
  /\ UNCHANGED <<m, img, fileName, reads, writes>>

\* the copy, the watermark blend and jpeg.Encode(&res, dst, Quality: 50)
Encode ==
  /\ pc = "Encode"
  /\ IF EncodeOK(img.key)
     THEN /\ pc' = "PutObject"
          /\ UNCHANGED <<images, updates, ackType, failure>>
     ELSE /\ TryUpdate(UpdateImageByIDParams(m.ImageID, NullURL, TransformFailureStatus))
          /\ Return(TransformFailureAck, "encode")
  /\ UNCHANGED <<batches, blobs, nextBatchID, nextImageID, req, uploaded, transform, auth, del>>
  /\ UNCHANGED queueVars
  /\ UNCHANGED <<m, img, fileName, reads, writes>>

StoreFailureAckMutant == Ack
StoreFailureAck == NackRequeue
StoreFailureStatus == ImageStatusProcessing

ProcessedFileNameMutant(store) == FileName("raw", GetAssetPath(store))

\* fileName := "processed/" + utils.GetAssetPath("image/jpeg")
ProcessedFileName(store) == FileName("processed", GetAssetPath(store))

\* _, err = cfg.S3Client.PutObject(... Key: fileName, Body: &res)
PutProcessed ==
  /\ pc = "PutObject"
  /\ fileName' = ProcessedFileName(blobs)
  /\ writes' = writes \cup {fileName'}
  /\ \E s3Err \in BOOLEAN :
       IF ~s3Err
       THEN /\ blobs' = Put(blobs, fileName', "ok")
            /\ pc' = "UpdateImageByID"
            /\ UNCHANGED <<images, updates, ackType, failure>>
       ELSE /\ TryUpdate(UpdateImageByIDParams(m.ImageID, NullURL, StoreFailureStatus))
            /\ Return(StoreFailureAck, "store")
            /\ UNCHANGED blobs
  /\ UNCHANGED <<batches, nextBatchID, nextImageID, req, uploaded, transform, auth, del>>
  /\ UNCHANGED queueVars
  /\ UNCHANGED <<m, img, reads>>

CompletedParamsMutant(row, key) ==
  UpdateImageByIDParams(row.id, NullString(GetObjectURL(S3CfDistribution, key), TRUE),
                        ImageStatusProcessing)

\* The final update: processed_url = GetObjectURL(distribution, fileName),
\* status = completed.
CompletedParams(row, key) ==
  UpdateImageByIDParams(row.id, NullString(GetObjectURL(S3CfDistribution, key), TRUE),
                        ImageStatusCompleted)

\* the mutant: the task is requeued when the final update fails
UpdateCompletedMutant ==
  /\ pc = "UpdateImageByID"
  /\ \E dbErr \in BOOLEAN :
       /\ updates' = updates \cup {[arg |-> CompletedParams(img, fileName), err |-> dbErr]}
       /\ images' = IF dbErr THEN images
                    ELSE UpdateImageByID(images, CompletedParams(img, fileName))
       /\ Return(IF dbErr THEN NackRequeue ELSE Ack, "none")
  /\ UNCHANGED <<batches, blobs, nextBatchID, nextImageID, req, uploaded, transform, auth, del>>
  /\ UNCHANGED queueVars
  /\ UNCHANGED <<m, img, fileName, reads, writes>>

\* dbQueries.UpdateImageByID(... completed); return pubsub.Ack
UpdateCompleted ==
  /\ pc = "UpdateImageByID"
  /\ TryUpdate(CompletedParams(img, fileName))
  /\ Return(Ack, "none")
  /\ UNCHANGED <<batches, blobs, nextBatchID, nextImageID, req, uploaded, transform, auth, del>>
  /\ UNCHANGED queueVars
  /\ UNCHANGED <<m, img, fileName, reads, writes>>

\* switch ackType { Ack: m.Ack(false); NackRequeue: m.Nack(false, true);
\* NackDiscard: m.Nack(false, false) }.  The error of the call is dropped:
\* when the answer does not reach the broker the delivery stays unanswered
\* and the broker queues the task again (at-least-once delivery).
SendAck ==
  /\ pc = "ack"
  /\ \E lost \in BOOLEAN :
       ready' = IF ackType = NackRequeue \/ lost
                THEN Append(ready, Marshal(m)) ELSE ready
  /\ pc' = "idle"
  /\ m' = NoTask
  /\ img' = NoRow
  /\ fileName' = EmptyKey
  /\ ackType' = NoAck
  /\ reads' = {}
  /\ writes' = {}
  /\ updates' = {}
  /\ failure' = "none"
  /\ UNCHANGED <<batches, images, blobs, nextBatchID, nextImageID, req, msgCh,
                 delivered, dropped, uploaded, transform, auth, del>>

\* ------------------------------------------------- float64 arithmetic
\* A binary numeral is a sequence of bits, most significant first, without
\* leading zeros.  A float64 is [mant, exp]: the numeral mant, of at most 53
\* bits, times 2^exp; zero has the empty numeral.
RECURSIVE Bin(_)
Bin(n) == IF n = 0 THEN <<>> ELSE Append(Bin(n \div 2), n % 2)

RECURSIVE Val(_)
Val(bits) ==
  IF bits = <<>> THEN 0
  ELSE 2 * Val(SubSeq(bits, 1, Len(bits) - 1)) + bits[Len(bits)]

\* bits times n plus carry, from the last bit on.  No carry is negative: the
\* test settles the carry of a bit before the next bit is taken.
RECURSIVE MulBits(_, _, _)
MulBits(bits, n, carry) ==
  IF bits = <<>> \/ carry < 0 THEN Bin(carry)
  ELSE LET t == n * bits[Len(bits)] + carry
       IN Append(MulBits(SubSeq(bits, 1, Len(bits) - 1), n, t \div 2), t % 2)

\* Round to nearest, ties to even, to 53 bits; sticky tells that the exact
\* value has more nonzero bits below those given.
Round(bits, exp, sticky) ==
  IF Len(bits) <= 53 THEN [mant |-> bits, exp |-> exp]
  ELSE LET keep == SubSeq(bits, 1, 53)
           rest == SubSeq(bits, 54, Len(bits))
           low == sticky \/ \E i \in 2..Len(rest) : rest[i] = 1
           up == rest[1] = 1 /\ (low \/ keep[53] = 1)
           r == IF up THEN MulBits(keep, 1, 1) ELSE keep
           e == exp + Len(rest)
       IN IF Len(r) > 53 THEN [mant |-> SubSeq(r, 1, 53), exp |-> e + 1]
          ELSE [mant |-> r, exp |-> e]

\* The first 54 significant bits of acc.r/y, by long division.
RECURSIVE DivBits(_, _, _, _)
DivBits(r, y, acc, frac) ==
  IF Len(acc) >= 54 THEN [bits |-> acc, frac |-> frac, sticky |-> r # 0]
  ELSE LET b == (2 * r) \div y
       IN DivBits((2 * r) % y, y,
                  IF acc = <<>> /\ b = 0 THEN acc ELSE Append(acc, b), frac + 1)

\* float64(x) / float64(y) for integers x >= 0, y > 0; also the float64 of
\* the decimal constant x/y
Quo(x, y) ==
  IF x = 0 THEN [mant |-> <<>>, exp |-> 0]
  ELSE LET d == DivBits(x % y, y, Bin(x \div y), 0)
       IN Round(d.bits, 0 - d.frac, d.sticky)

\* float64(n) * f for an integer n >= 0
MulInt(n, f) ==
  IF n = 0 \/ f.mant = <<>> THEN [mant |-> <<>>, exp |-> 0]
  ELSE Round(MulBits(f.mant, n, 0), f.exp, FALSE)

\* int(f): the integer part
Trunc(f) ==
  IF f.mant = <<>> THEN 0
  ELSE IF f.exp >= 0 THEN Val(f.mant) * 2 ^ f.exp
  ELSE IF Len(f.mant) + f.exp <= 0 THEN 0
  ELSE Val(SubSeq(f.mant, 1, Len(f.mant) + f.exp))

\* ------------------------------------------------- watermark placement
\* the mutant: the target width is rounded up
WatermarkRectMutant(baseWidth, baseHeight, wWidth, wHeight) ==
  LET targetWidth == Trunc(MulInt(baseWidth, Quo(15, 100))) + 1
      scale == Quo(targetWidth, wWidth)
      targetHeight == Trunc(MulInt(wHeight, scale))
      padding == Trunc(MulInt(baseHeight, Quo(1, 100)))
  IN [targetWidth |-> targetWidth, targetHeight |-> targetHeight,
      padding |-> padding,
      watermarkX |-> baseWidth - targetWidth - padding,
      watermarkY |-> baseHeight - targetHeight - padding]

\* targetWidth, scale, targetHeight, padding, watermarkX, watermarkY
WatermarkRect(baseWidth, baseHeight, wWidth, wHeight) ==
  LET targetWidth == Trunc(MulInt(baseWidth, Quo(15, 100)))
      scale == Quo(targetWidth, wWidth)
      targetHeight == Trunc(MulInt(wHeight, scale))
      padding == Trunc(MulInt(baseHeight, Quo(1, 100)))
  IN [targetWidth |-> targetWidth, targetHeight |-> targetHeight,
      padding |-> padding,
      watermarkX |-> baseWidth - targetWidth - padding,
      watermarkY |-> baseHeight - targetHeight - padding]

\* ---------------------------------------------------- watermark blend
\* draw.DrawMask(dst, rect, resizedWatermark, ZP, alphaMask, ZP, draw.Over)
\* with dst and resizedWatermark *image.RGBA (8 bits a channel, colour
\* premultiplied by alpha) and alphaMask uniform: per pixel and channel, in
\* uint32 arithmetic on 16-bit values, with m = 1<<16 - 1.
\* A product x*y of two 16-bit values is held as [q, r] with x*y = q*m + r.
M16 == 256 * 256 - 1

MulM(x, y) ==
  LET hi == x * (y \div 256)
      lo == (hi % M16) * 256 + x * (y % 256)
  IN [q |-> (hi \div M16) * 256 + lo \div M16, r |-> lo % M16]

\* (x1*y1 + x2*y2) / m
SumDivM(p1, p2) == p1.q + p2.q + (p1.r + p2.r) \div M16

\* color.RGBA{...}.RGBA() and color.Alpha{A}.RGBA(): v |= v << 8
RGBA16(v) == v * 257

\* the mutant: the source pixel taken as opaque
DrawMaskOverMutant(d, s, mask) ==
  LET ma == RGBA16(mask)
      a == M16 - MulM(M16, ma).q
      ch(dc, sc) == SumDivM(MulM(RGBA16(dc), a), MulM(RGBA16(sc), ma)) \div 256
  IN [c |-> ch(d.c, s.c), a |-> ch(d.a, s.a)]

\* a := (m - (sa * ma / m)) * 0x101
\* d[i] = uint8((d[i]*a + s*ma) / m >> 8), colour and alpha channel alike
DrawMaskOver(d, s, mask) ==
  LET ma == RGBA16(mask)
      a == M16 - MulM(RGBA16(s.a), ma).q
      ch(dc, sc) == SumDivM(MulM(RGBA16(dc), a), MulM(RGBA16(sc), ma)) \div 256
  IN [c |-> ch(d.c, s.c), a |-> ch(d.a, s.a)]

\* ------------------------------------------------------- the composite
\* image.Rectangle: p is in r when Min.X <= p.X < Max.X and Min.Y <= p.Y < Max.Y
InRect(p, x0, y0, x1, y1) == x0 <= p.x /\ p.x < x1 /\ y0 <= p.y /\ p.y < y1

\* the mutant: the watermark is blended into the decoded image itself
ComposeMutant(baseWidth, baseHeight, hasWatermark, wWidth, wHeight, at, d, s) ==
  LET rect == IF hasWatermark
              THEN WatermarkRect(baseWidth, baseHeight, wWidth, wHeight) ELSE NoRect
      drawn == /\ hasWatermark
               /\ InRect(at, rect.watermarkX, rect.watermarkY,
                         rect.watermarkX + rect.targetWidth,
                         rect.watermarkY + rect.targetHeight)
               /\ InRect(at, 0, 0, baseWidth, baseHeight)
      out == IF drawn THEN DrawMaskOver(d, s, MaskAlpha) ELSE d
  IN [rect |-> rect, src |-> out, out |-> out,
      dstWidth |-> baseWidth, dstHeight |-> baseHeight]

\* dst := image.NewRGBA(bounds); draw.Draw(dst, bounds, decodedImg, ZP, draw.Src);
\* if watermarkImg != nil { ...; draw.DrawMask(dst, watermarkRect, ...) }
\* seen at the point `at` of the base image: d is the pixel of decodedImg
\* there, s the pixel of resizedWatermark that watermarkRect lays over it;
\* src is the pixel of decodedImg and out that of dst when the transform ends.
\* DrawMask clips watermarkRect to the bounds of dst.
Compose(baseWidth, baseHeight, hasWatermark, wWidth, wHeight, at, d, s) ==
  LET rect == IF hasWatermark
              THEN WatermarkRect(baseWidth, baseHeight, wWidth, wHeight) ELSE NoRect
      drawn == /\ hasWatermark
               /\ InRect(at, rect.watermarkX, rect.watermarkY,
                         rect.watermarkX + rect.targetWidth,
                         rect.watermarkY + rect.targetHeight)
               /\ InRect(at, 0, 0, baseWidth, baseHeight)
  IN [rect |-> rect, src |-> d,
      out |-> IF drawn THEN DrawMaskOver(d, s, MaskAlpha) ELSE d,
      dstWidth |-> baseWidth, dstHeight |-> baseHeight]

\* jpeg.Encode: an image with a side of 1<<16 or more is refused; the frame
\* header (SOF0) carries the height and the width, two bytes each, high byte
\* first.
JpegEncode(width, height) ==
  IF width >= 256 * 256 \/ height >= 256 * 256
  THEN [err |-> TRUE, sof |-> <<>>]
  ELSE [err |-> FALSE,
        sof |-> <<height \div 256, height % 256, width \div 256, width % 256>>]

\* jpeg.Decode, the sides it reads from the frame header
JpegDecodeConfig(sof) ==
  [Width |-> sof[3] * 256 + sof[4], Height |-> sof[1] * 256 + sof[2]]

\* ------------------------------------------- the transform on its own
\* Sizes and pixels the transform is applied to.
BaseSides == {100 * k : k \in 1..MaxBaseSide}
WmSides == 1..MaxWmSide
Levels == {v \in 0..255 : v % ChannelStep = 0}
\* an *image.RGBA pixel: one colour channel, premultiplied, and alpha
Pixels == {px \in [c : Levels, a : Levels] : px.c <= px.a}

\* base images small enough to follow every pixel; watermarks to match
SmallSides == 1..MaxSmallSide
SmallHeights == {1, 2}
SmallWm == {1, 2}
\* opaque base pixels; a transparent, an opaque and a translucent watermark pixel
BasePixels == {[c |-> 0, a |-> 255], [c |-> 255, a |-> 255]}
WmPixels == {[c |-> 0, a |-> 0], [c |-> 255, a |-> 255], [c |-> 0, a |-> 255]}
\* sides around the limits of one byte and of jpeg.Encode
EncodeSides == {255, 256, 256 * 256 - 1, 256 * 256}

TransformInputs ==
  {[NoTransform EXCEPT !.pc = "place", !.baseWidth = sz[1], !.baseHeight = sz[2],
                       !.hasWatermark = TRUE, !.wWidth = sz[3], !.wHeight = sz[4]] :
     sz \in (BaseSides \X BaseSides \X WmSides \X WmSides)
            \cup {<<1000, 800, 200, 100>>}}
  \cup
  {[NoTransform EXCEPT !.pc = "blend", !.d = px[1], !.s = px[2]] :
     px \in Pixels \X Pixels}
  \cup
  {[NoTransform EXCEPT !.pc = "compose", !.baseWidth = in[1], !.baseHeight = in[2],
                       !.hasWatermark = in[3] # <<>>,
                       !.wWidth = IF in[3] = <<>> THEN 0 ELSE in[3][1],
                       !.wHeight = IF in[3] = <<>> THEN 0 ELSE in[3][2],
                       !.at = in[4], !.d = in[5],
                       !.s = IF in[3] = <<>> THEN NoPixel ELSE in[6]] :
     in \in {i \in SmallSides \X SmallHeights \X ({<<>>} \cup (SmallWm \X SmallWm))
                    \X [x : 0..(MaxSmallSide - 1), y : 0..(MaxSmallSide - 1)]
                    \X BasePixels \X WmPixels :
               i[4].x < i[1] /\ i[4].y < i[2]}}
  \cup
  {[NoTransform EXCEPT !.pc = "compose", !.baseWidth = in[1], !.baseHeight = in[2],
                       !.hasWatermark = in[3],
                       !.wWidth = IF in[3] THEN 1 ELSE 0,
                       !.wHeight = IF in[3] THEN 1 ELSE 0] :
     in \in EncodeSides \X EncodeSides \X BOOLEAN}

InitTransform ==
  /\ batches = <<>>
  /\ images = <<>>
  /\ blobs = <<>>
  /\ nextBatchID = 1
  /\ nextImageID = 1
  /\ req = [pc |-> "new", userID |-> 1, batch |-> 0, left |-> 0, count |-> 0,
            status |-> 0, wmJpegOrPng |-> TRUE]
  /\ ready = <<>>
  /\ msgCh = <<>>
  /\ delivered = 0
  /\ dropped = 0
  /\ uploaded = <<>>
  /\ pc = "idle"
  /\ m = NoTask
  /\ img = NoRow
  /\ fileName = EmptyKey
  /\ ackType = NoAck
  /\ reads = {}
  /\ writes = {}
  /\ updates = {}
  /\ failure = "none"
  /\ transform \in TransformInputs
  /\ auth = NoAuth
  /\ del = NoDelete

\* if watermarkImg != nil { ... watermarkRect := image.Rect(...) }
PlaceWatermark ==
  /\ transform.pc = "place"
  /\ transform' =
       [transform EXCEPT !.pc = "placed",
          !.rect = WatermarkRect(transform.baseWidth, transform.baseHeight,
                                 transform.wWidth, transform.wHeight)]
  /\ UNCHANGED programVars
  /\ UNCHANGED <<auth, del>>

\* draw.DrawMask(...) at one pixel of watermarkRect
BlendWatermark ==
  /\ transform.pc = "blend"
  /\ transform' =
       [transform EXCEPT !.pc = "blended",
          !.out = DrawMaskOver(transform.d, transform.s, MaskAlpha)]
  /\ UNCHANGED programVars
  /\ UNCHANGED <<auth, del>>

\* the copy, the watermark and jpeg.Encode(&res, dst, ...), at one point
Composite ==
  /\ transform.pc = "compose"
  /\ LET t == Compose(transform.baseWidth, transform.baseHeight,
                      transform.hasWatermark, transform.wWidth, transform.wHeight,
                      transform.at, transform.d, transform.s)
     IN transform' =
          [transform EXCEPT !.pc = "composed", !.rect = t.rect, !.src = t.src,
                            !.out = t.out, !.dstWidth = t.dstWidth,
                            !.dstHeight = t.dstHeight,
                            !.jpeg = JpegEncode(t.dstWidth, t.dstHeight)]
  /\ UNCHANGED programVars
  /\ UNCHANGED <<auth, del>>

NextTransform ==
  \/ PlaceWatermark
  \/ BlendWatermark
  \/ Composite

SpecTransform == InitTransform /\ [][NextTransform]_vars

\* ------------------------------------------------- GetAuthorizationToken
\* A string is the sequence of its characters; "" is <<>>.
Bearer == <<"B", "e", "a", "r", "e", "r", " ">>

\* strings.HasPrefix, strings.TrimPrefix
HasPrefix(str, prefix) ==
  Len(str) >= Len(prefix) /\ SubSeq(str, 1, Len(prefix)) = prefix
TrimPrefix(str, prefix) ==
  IF HasPrefix(str, prefix) THEN SubSeq(str, Len(prefix) + 1, Len(str)) ELSE str

\* unicode.IsSpace, of the characters tried
WhiteSpace == {" ", "\t", "\n", "\r"}

\* strings.TrimSpace: the leading and the trailing white space removed
RECURSIVE TrimLeft(_)
TrimLeft(str) ==
  IF str # <<>> /\ Head(str) \in WhiteSpace THEN TrimLeft(Tail(str)) ELSE str
RECURSIVE TrimRight(_)
TrimRight(str) ==
  IF str # <<>> /\ str[Len(str)] \in WhiteSpace
  THEN TrimRight(SubSeq(str, 1, Len(str) - 1)) ELSE str
TrimSpace(str) == TrimRight(TrimLeft(str))

\* http.Header.Get("Authorization"): the first value of the header, "" when
\* the header has none
Get(headers) == IF headers = <<>> THEN <<>> ELSE headers[1]

\* the mutant: the text after the prefix is returned as it is
GetAuthorizationTokenMutant(headers) ==
  LET authorization == Get(headers) IN
  IF authorization = <<>>
  THEN [token |-> <<>>, err |-> "missing authorization headers"]
  ELSE IF ~HasPrefix(authorization, Bearer)
  THEN [token |-> <<>>, err |-> "invalid authorization header format"]
  ELSE LET token == TrimPrefix(authorization, Bearer) IN
       IF token = <<>> THEN [token |-> <<>>, err |-> "invalid token"]
       ELSE [token |-> token, err |-> ""]

GetAuthorizationToken(headers) ==
  LET authorization == Get(headers) IN
  IF authorization = <<>>
  THEN [token |-> <<>>, err |-> "missing authorization headers"]
  ELSE IF ~HasPrefix(authorization, Bearer)
  THEN [token |-> <<>>, err |-> "invalid authorization header format"]
  ELSE LET token == TrimSpace(TrimPrefix(authorization, Bearer)) IN
       IF token = <<>> THEN [token |-> <<>>, err |-> "invalid token"]
       ELSE [token |-> token, err |-> ""]

\* Authorization values: a head, right or nearly right, and what follows it.
HeaderHeads ==
  {<<>>, Bearer, <<"B", "e", "a", "r", "e", "r">>,
   <<"b", "e", "a", "r", "e", "r", " ">>, <<" ">> \o Bearer,
   <<"B", "a", "s", "i", "c", " ">>}
TokenChars == {" ", "\t", "a", "b"}
RECURSIVE Strings(_)
Strings(n) ==
  IF n = 0 THEN {<<>>}
  ELSE Strings(n - 1) \cup
       {Append(str, ch) : str \in {x \in Strings(n - 1) : Len(x) = n - 1},
                          ch \in TokenChars}
HeaderValues == {head \o rest : head \in HeaderHeads, rest \in Strings(MaxTokenLen)}

\* The header absent, with one value, or with an empty value before a good
\* one; or no header and the login requests still to come.
AuthInputs ==
  {[NoAuth EXCEPT !.pc = "header", !.headers = h] :
     h \in {<<>>, << <<>>, Bearer \o <<"a">> >>} \cup {<<v>> : v \in HeaderValues}}
  \cup {[NoAuth EXCEPT !.pc = "login"]}

InitAuth ==
  /\ batches = <<>>
  /\ images = <<>>
  /\ blobs = <<>>
  /\ nextBatchID = 1
  /\ nextImageID = 1
  /\ req = [pc |-> "new", userID |-> 1, batch |-> 0, left |-> 0, count |-> 0,
            status |-> 0, wmJpegOrPng |-> TRUE]
  /\ ready = <<>>
  /\ msgCh = <<>>
  /\ delivered = 0
  /\ dropped = 0
  /\ uploaded = <<>>
  /\ pc = "idle"
  /\ m = NoTask
  /\ img = NoRow
  /\ fileName = EmptyKey
  /\ ackType = NoAck
  /\ reads = {}
  /\ writes = {}
  /\ updates = {}
  /\ failure = "none"
  /\ transform = NoTransform
  /\ del = NoDelete
  /\ auth \in AuthInputs

\* token, err := utils.GetAuthorizationToken(c.Request().Header)
Authenticated ==
  /\ auth.pc = "header"
  /\ LET r == GetAuthorizationToken(auth.headers)
     IN auth' = [auth EXCEPT !.pc = "token", !.token = r.token, !.err = r.err]
  /\ UNCHANGED programVars
  /\ UNCHANGED <<transform, del>>

\* ---------------------------------------------------------- POST /login
\* utils.HashPassword and utils.ComparePassword: the hash of a password
\* matches that password and no other.
HashPassword(password) == [bcrypt |-> password]
ComparePassword(hash, password) == hash.bcrypt = password

\* users table: a user, and a user whose account is deleted.
UsersTable ==
  {[id |-> 1, email |-> "test@example.com",
    password_hash |-> HashPassword("password123"), deleted_at |-> FALSE],
   [id |-> 2, email |-> "gone@example.com",
    password_hash |-> HashPassword("password123"), deleted_at |-> TRUE]}

\* SELECT * FROM users WHERE email = $1 AND deleted_at IS NULL
GetUsersByEmail(email) == {u \in UsersTable : u.email = email /\ ~u.deleted_at}

\* h.validator.Struct(body): the email is present and well-formed, the
\* password is present.
Validate(body) ==
  /\ body.Email \notin {"", "invalid-email"}
  /\ body.Password # ""

\* utils.GenerateJWT(user.ID, secret): a token whose subject is the user
GenerateJWT(userID) == [sub |-> userID]
NoJWT == [sub |-> 0]

\* utils.RespondError: no data and no cookie
RespondError(status, message) ==
  [status |-> status, message |-> message, access_token |-> NoJWT,
   refresh_token |-> 0, cookie |-> 0]

\* INSERT INTO refresh_tokens(user_id, token, expires_at): UNIQUE(user_id, token)
CreateRefreshTokenOK(rows, userID, token) ==
  [user_id |-> userID, token |-> token] \notin rows

\* Login requests: the body that arrives, the calls that fail, and the value
\* GenerateRefresh draws (32 random bytes in hex, never the empty string).
LoginInputs ==
  {in \in [json : BOOLEAN,
           Email : {"", "invalid-email", "test@example.com", "gone@example.com",
                    "notfound@example.com"},
           Password : {"", "password123", "wrongpassword"},
           fault : {"none", "getUser", "jwt", "createToken"},
           refresh : 1..MaxRefresh] :
     ~in.json => in.Email = "" /\ in.Password = "" /\ in.fault = "none"}

\* the mutant: an unknown email is told apart
LoginMutant(in, rows) ==
  IF ~in.json
  THEN [res |-> RespondError(StatusBadRequest, "invalid request body"), rows |-> rows]
  ELSE IF ~Validate(in)
  THEN [res |-> RespondError(StatusBadRequest, "validation"), rows |-> rows]
  ELSE IF in.fault = "getUser" \/ GetUsersByEmail(in.Email) = {}
  THEN [res |-> RespondError(StatusUnauthorized, "user not found"), rows |-> rows]
  ELSE LET user == CHOOSE u \in GetUsersByEmail(in.Email) : TRUE IN
  IF ~ComparePassword(user.password_hash, in.Password)
  THEN [res |-> RespondError(StatusUnauthorized, "invalid email or password"),
        rows |-> rows]
  ELSE IF in.fault = "jwt"
  THEN [res |-> RespondError(StatusInternalServerError, "internal server error"),
        rows |-> rows]
  ELSE IF in.fault = "createToken" \/ ~CreateRefreshTokenOK(rows, user.id, in.refresh)
  THEN [res |-> RespondError(StatusInternalServerError, "internal server error"),
        rows |-> rows]
  ELSE [res |-> [status |-> StatusOK, message |-> "login success",
                 access_token |-> GenerateJWT(user.id),
                 refresh_token |-> in.refresh, cookie |-> in.refresh],
        rows |-> rows \cup {[user_id |-> user.id, token |-> in.refresh]}]

\* AuthHandler.Login: the response and the refresh_tokens table after it
Login(in, rows) ==
  IF ~in.json
  THEN [res |-> RespondError(StatusBadRequest, "invalid request body"), rows |-> rows]
  ELSE IF ~Validate(in)
  THEN [res |-> RespondError(StatusBadRequest, "validation"), rows |-> rows]
  ELSE IF in.fault = "getUser" \/ GetUsersByEmail(in.Email) = {}
  THEN [res |-> RespondError(StatusUnauthorized, "invalid email or password"),
        rows |-> rows]
  ELSE LET user == CHOOSE u \in GetUsersByEmail(in.Email) : TRUE IN
  IF ~ComparePassword(user.password_hash, in.Password)
  THEN [res |-> RespondError(StatusUnauthorized, "invalid email or password"),
        rows |-> rows]
  ELSE IF in.fault = "jwt"
  THEN [res |-> RespondError(StatusInternalServerError, "internal server error"),
        rows |-> rows]
  ELSE IF in.fault = "createToken" \/ ~CreateRefreshTokenOK(rows, user.id, in.refresh)
  THEN [res |-> RespondError(StatusInternalServerError, "internal server error"),
        rows |-> rows]
  ELSE [res |-> [status |-> StatusOK, message |-> "login success",
                 access_token |-> GenerateJWT(user.id),
                 refresh_token |-> in.refresh, cookie |-> in.refresh],
        rows |-> rows \cup {[user_id |-> user.id, token |-> in.refresh]}]

\* One login request, from its arrival to its response.
LoginRequest ==
  /\ auth.pc = "login"
  /\ Len(auth.logins) < MaxLogins
  /\ \E in \in LoginInputs :
       LET r == Login(in, auth.refresh_tokens) IN
       auth' = [auth EXCEPT
                  !.refresh_tokens = r.rows,
                  !.logins = Append(@, [json |-> in.json, Email |-> in.Email,
                                        Password |-> in.Password, res |-> r.res])]
  /\ UNCHANGED programVars
  /\ UNCHANGED <<transform, del>>

NextAuth ==
  \/ Authenticated
  \/ LoginRequest

SpecAuth == InitAuth /\ [][NextAuth]_vars

\* --------------------------------- DELETE /images/{id} on its own
\* The tables when the request arrives: two batches, each of one of the
\* users, and two images, each in one of the batches; any of them deleted.
DeleteRows == {1, 2}
DeleteBatches ==
  {[b \in DeleteRows |->
      [CreateBatch(b, f[b][1], CreateBatchParams(EmptyKey, EmptyURL))
         EXCEPT !.deleted_at = f[b][2]]] :
     f \in [DeleteRows -> Users \X BOOLEAN]}
DeleteImages ==
  {[i \in DeleteRows |->
      [CreateImage(i, g[i][1], FileName("raw", i),
                   GetObjectURL(S3CfDistribution, FileName("raw", i)))
         EXCEPT !.deleted_at = g[i][2]]] :
     g \in [DeleteRows -> DeleteRows \X BOOLEAN]}

InitDelete ==
  /\ batches \in DeleteBatches
  /\ images \in DeleteImages
  /\ blobs = [k \in {FileName("raw", i) : i \in DeleteRows} |-> "ok"]
  /\ nextBatchID = Cardinality(DeleteRows) + 1
  /\ nextImageID = Cardinality(DeleteRows) + 1
  /\ req = [pc |-> "new", userID |-> 1, batch |-> 0, left |-> 0, count |-> 0,
            status |-> 0, wmJpegOrPng |-> TRUE]
  /\ ready = <<>>
  /\ msgCh = <<>>
  /\ delivered = 0
  /\ dropped = 0
  /\ uploaded = <<>>
  /\ pc = "idle"
  /\ m = NoTask
  /\ img = NoRow
  /\ fileName = EmptyKey
  /\ ackType = NoAck
  /\ reads = {}
  /\ writes = {}
  /\ updates = {}
  /\ failure = "none"
  /\ transform = NoTransform
  /\ auth = NoAuth
  /\ del = [NoDelete EXCEPT !.pc = "new"]

\* One DELETE /images/{id} request, from its arrival to its response.
DeleteByIDRequest ==
  /\ del.pc = "new"
  /\ \E userID \in Users : \E id \in 0..nextImageID :
       \E fault \in {"none", "list", "delete"} :
         LET r == DeleteByID(userID, id, fault) IN
         /\ images' = r.images
         /\ del' = [pc |-> "done", userID |-> userID, imageID |-> id,
                    fault |-> fault, status |-> r.status]
  /\ UNCHANGED <<batches, blobs, nextBatchID, nextImageID, req, uploaded, transform, auth>>
  /\ UNCHANGED queueVars
  /\ UNCHANGED workerVars

NextDelete ==
  \/ DeleteByIDRequest

SpecDelete == InitDelete /\ [][NextDelete]_vars

\* One step of a running ProcessImage invocation.
ProcessImageStep ==
  \/ LoadImage
  \/ GetBaseObject
  \/ GetWatermarkObject
  \/ DecodeWatermark
  \/ DecodeBase
  \/ Encode
  \/ PutProcessed
  \/ UpdateCompleted

Next ==
  \/ CreateBegin
  \/ CreateFile
  \/ CreateRespond
  \/ ImageDeleteByID
  \/ BatchDeleteByID
  \/ Deliver
  \/ Receive
  \/ LoadImage
  \/ GetBaseObject
  \/ GetWatermarkObject
  \/ DecodeWatermark
  \/ DecodeBase
  \/ Encode
  \/ PutProcessed
  \/ UpdateCompleted
  \/ SendAck

Spec == Init /\ [][Next]_vars

\* ----------------------------------------------------------------- claims
\* The parameters of the UpdateImageByID calls of the running invocation.
Requested == {u.arg : u \in updates}

\* ProcessImage has returned after the call `failed` went wrong.
Returned(failed) == pc = "ack" /\ failure = failed

\* The status write of the failure paths: no processed_url, the status.
StatusOnly(status) ==
  [ID |-> m.ImageID, ProcessedUrl |-> [String |-> EmptyURL, Valid |-> FALSE],
   Status |-> status]

\* C1: a batch created without a watermark file carries no watermark
\* reference, so the worker makes no watermark fetch for its images, is never
\* requeued because of a watermark, and Acks when the base fetch, the decode,
\* the encode and the store succeed.
C1_WatermarkOptional ==
  (pc # "idle" /\ img # NoRow /\ img.watermark_key.String = EmptyKey) =>
     /\ ~img.watermark_key.Valid
     /\ pc \notin {"GetWatermark", "DecodeWatermark"}
     /\ failure \notin {"watermark", "wmdecode"}
     /\ (pc = "ack" /\ failure \notin {"base", "decode", "encode", "store"}
           => ackType = Ack)

\* C2: a task whose record cannot be loaded is discarded, status failed is
\* requested for it, and the invocation reads and writes no blob.
C2_RecordLoadFailure ==
  Returned("record") =>
     /\ ackType = NackDiscard
     /\ Requested = {StatusOnly(ImageStatusFailed)}
     /\ reads = {}
     /\ writes = {}

C2_Witness == Returned("record") /\ m.ImageID \in DOMAIN images

\* C3: a failed base fetch discards the task and requests status failed,
\* with or without a watermark reference: the base key is the only key
\* fetched and no blob is written.
C3_BaseFetchFailure ==
  Returned("base") =>
     /\ ackType = NackDiscard
     /\ Requested = {StatusOnly(ImageStatusFailed)}
     /\ reads = {img.key}
     /\ writes = {}

C3_Witness == Returned("base") /\ img.watermark_key.String \in DOMAIN blobs

\* C4: a failed watermark fetch requeues the task and issues no record
\* update and no blob write: the record is as it was loaded.
C4_WatermarkFetchFailure ==
  Returned("watermark") =>
     /\ ackType = NackRequeue
     /\ updates = {}
     /\ writes = {}
     /\ images[m.ImageID].status = img.status
     /\ images[m.ImageID].processed_url = img.processed_url

C4_Witness == Returned("watermark") /\ img.watermark_key.String \in DOMAIN blobs

\* C5 as claimed: every decode or encode error (base decode, watermark
\* decode, JPEG encode) requests status processing and requeues.
C5_AnyDecodeEncodeError ==
  (pc = "ack" /\ failure \in {"decode", "wmdecode", "encode"}) =>
     /\ ackType = NackRequeue
     /\ Requested = {StatusOnly(ImageStatusProcessing)}

\* C5 as amended: a base decode error and a JPEG encode error request status
\* processing and requeue; a watermark decode error requeues and requests
\* no status.
C5_TransformErrors ==
  /\ (pc = "ack" /\ failure \in {"decode", "encode"}) =>
        /\ ackType = NackRequeue
        /\ Requested = {StatusOnly(ImageStatusProcessing)}
  /\ Returned("wmdecode") =>
        /\ ackType = NackRequeue
        /\ updates = {}

C5_Witness == Returned("encode") /\ \E u \in updates : ~u.err

\* C6: a failed store of the result requests status processing and
\* requeues; no processed_url and no status completed is requested.
C6_StoreFailure ==
  Returned("store") =>
     /\ ackType = NackRequeue
     /\ Requested = {StatusOnly(ImageStatusProcessing)}
     /\ \A a \in Requested : ~a.ProcessedUrl.Valid /\ a.Status # ImageStatusCompleted
     /\ fileName \notin DOMAIN blobs

C6_Witness == Returned("store") /\ fileName.prefix = "processed"

\* C7: the result is stored under a fresh "processed/" key before the record
\* is updated, the processed_url requested is the URL of that key, and every
\* completed record's processed_url names a stored "processed/" object.
C7_CompletedHasBlob ==
  /\ \A i \in DOMAIN images :
       images[i].status = ImageStatusCompleted =>
          /\ images[i].processed_url.Valid
          /\ images[i].processed_url.String.scheme = "https"
          /\ images[i].processed_url.String.host = S3CfDistribution
          /\ images[i].processed_url.String.path \in DOMAIN blobs
          /\ images[i].processed_url.String.path.prefix = "processed"
  /\ pc = "UpdateImageByID" =>
          /\ fileName \in DOMAIN blobs
          /\ fileName.prefix = "processed"
          /\ \A i \in DOMAIN images :
               /\ images[i].key # fileName
               /\ images[i].processed_url.String.path # fileName
  /\ (pc = "ack" /\ ackType = Ack) =>
          \A a \in Requested : a.ProcessedUrl.String.path = fileName

C7_Witness ==
  \E i \in DOMAIN images :
    /\ images[i].status = ImageStatusCompleted
    /\ Cardinality({k \in DOMAIN blobs : k.prefix = "processed"}) = 2

C9_ProcessedUrlIffCompleted ==
  \A i \in DOMAIN images :
    images[i].processed_url.Valid <=> images[i].status = ImageStatusCompleted

C9_Witness ==
  \E i \in DOMAIN images :
    /\ images[i].status = ImageStatusCompleted
    /\ images[i].processed_url.Valid
    /\ images[i].deleted_at

\* C10: no step writes a completed or failed record back to pending or
\* processing, or a completed record to failed.
C10_StatusMovesForward ==
  [][\A i \in DOMAIN images \cap DOMAIN images' :
       /\ images[i].status \in {ImageStatusCompleted, ImageStatusFailed}
            => images'[i].status \notin {ImageStatusPending, ImageStatusProcessing}
       /\ images[i].status = ImageStatusCompleted
            => images'[i].status # ImageStatusFailed]_vars

\* The tasks the broker and the consumer hold: queued, delivered, in hand.
Tasks ==
  {Unmarshal(ready[i]) : i \in {j \in DOMAIN ready : UnmarshalOK(ready[j])}}
  \cup {Unmarshal(msgCh[i]) : i \in {j \in DOMAIN msgCh : UnmarshalOK(msgCh[j])}}
  \cup (IF pc = "idle" THEN {} ELSE {m})

\* C11: a soft-deleted image record is never re-entered into processing: no
\* step changes its status or processed_url, and a task taken for it is
\* resolved with Discard without a blob read and without a blob write.
C11_DeletedNeverProcessed ==
  [][/\ \A i \in DOMAIN images \cap DOMAIN images' :
          images[i].deleted_at =>
             /\ images'[i].deleted_at
             /\ images'[i].status = images[i].status
             /\ images'[i].processed_url = images[i].processed_url
     /\ (pc = "GetImageByID" /\ m.ImageID \in DOMAIN images
           /\ images[m.ImageID].deleted_at) =>
             /\ pc' \in {"GetImageByID", "ack"}
             /\ pc' = "ack" =>
                  /\ ackType' = NackDiscard
                  /\ reads' = {}
                  /\ writes' = {}
                  /\ blobs' = blobs]_vars

C11_Witness ==
  /\ Returned("record")
  /\ m.ImageID \in DOMAIN images
  /\ images[m.ImageID].deleted_at
  /\ ~batches[images[m.ImageID].batch_id].deleted_at
  /\ images[m.ImageID].status = ImageStatusPending
  /\ \E u \in updates : ~u.err

\* The position of ProcessImage in the order of its calls.
Rank(p) ==
  CASE p = "GetImageByID" -> 1
    [] p = "GetObject" -> 2
    [] p = "GetWatermark" -> 3
    [] p = "DecodeWatermark" -> 4
    [] p = "Decode" -> 5
    [] p = "Encode" -> 6
    [] p = "PutObject" -> 7
    [] p = "UpdateImageByID" -> 8
    [] p = "ack" -> 9
    [] OTHER -> 0

\* C12: every invocation of ProcessImage ends by returning exactly one of
\* Ack, NackRequeue, NackDiscard, whatever the record store, the blob store,
\* the decoder and the encoder answer: a running invocation always has a next
\* step, each step takes it strictly further along its calls, and at its
\* return, and only there, it holds one directive.
C12_AlwaysReturnsDirective ==
  /\ [](/\ pc \notin {"idle", "ack"} => ENABLED ProcessImageStep
        /\ pc = "ack" => ackType \in AckType
        /\ pc # "ack" => ackType = NoAck)
  /\ [][pc \notin {"idle", "ack"} =>
          /\ pc' # "idle"
          /\ pc' # pc => Rank(pc') > Rank(pc)]_vars

C12_Witness ==
  /\ Returned("store")
  /\ ackType = NackRequeue
  /\ img.watermark_key.String \in DOMAIN blobs
  /\ \E u \in updates : u.err

\* The directive of each outcome of the pipeline.
Directive(failed) ==
  CASE failed \in {"record", "base"} -> NackDiscard
    [] failed \in {"watermark", "wmdecode", "decode", "encode", "store"} -> NackRequeue
    [] OTHER -> Ack

\* C13: the directive ProcessImage returns is that of the pipeline outcome
\* alone, whether the status write it made succeeded or failed.
C13_DirectiveIgnoresUpdateError ==
  pc = "ack" =>
     ackType = Directive(failure)

C13_Witness ==
  /\ pc = "ack"
  /\ failure = "none"
  /\ ackType = Ack
  /\ \E u \in updates : u.err

\* C14 as claimed: every delivery the consumer takes is answered with Ack or
\* Nack.  A delivery counted in dropped was passed over by the loop, which
\* never comes back to it.
C14_EveryDeliveryAnswered == dropped = 0

\* C15: the consumer never holds more than 5 unanswered deliveries, and never
\* runs more ProcessImage invocations than that.
C15_PrefetchLimit ==
  /\ Unacked <= 5
  /\ Running <= 5
  /\ Running <= Unacked

C15_Witness ==
  /\ Unacked = 5
  /\ Running = 1
  /\ ready # <<>>

\* C16 as claimed: when Create has answered, every raw image it stored has
\* exactly one published task, and so has every image record of the batch.
C16_StoredImpliesOneTask ==
  req.pc = "done" =>
     /\ \A k \in DOMAIN uploaded : uploaded[k].tasks = 1
     /\ \A i \in DOMAIN images :
          images[i].batch_id = req.batch =>
             /\ images[i].key \in DOMAIN uploaded
             /\ uploaded[images[i].key].tasks = 1

\* The files of the request that were stored, recorded and published.
Accepted == {k \in DOMAIN uploaded : uploaded[k].recorded /\ uploaded[k].tasks = 1}

\* C17 as claimed: past the form checks Create answers 201 exactly when an
\* image was accepted; with none accepted it answers 400 and neither the
\* batch record nor an image record of it remains.
C17_SuccessIffAccepted ==
  (req.pc = "done" /\ req.batch # 0) =>
     /\ req.status = StatusCreated <=> Accepted # {}
     /\ Accepted = {} =>
          /\ req.status = StatusBadRequest
          /\ req.batch \notin DOMAIN batches
          /\ \A i \in DOMAIN images : images[i].batch_id # req.batch

\* C18: every image record and every task is of a file declared image/jpeg
\* or image/png, and a watermark of another type ends Create with 400 before
\* any object, batch record, image record or task exists.
C18_OnlyJpegOrPng ==
  /\ \A k \in DOMAIN uploaded : uploaded[k].jpegOrPng
  /\ \A i \in DOMAIN images :
       images[i].key \in DOMAIN uploaded /\ uploaded[images[i].key].jpegOrPng
  /\ \A t \in Tasks :
       /\ t.ImageID \in DOMAIN images
       /\ uploaded[images[t.ImageID].key].jpegOrPng
  /\ ~req.wmJpegOrPng =>
       /\ req.pc = "done"
       /\ req.status = StatusBadRequest
       /\ batches = <<>>
       /\ images = <<>>
       /\ blobs = <<>>
       /\ Tasks = {}

C18_Witness ==
  /\ ~req.wmJpegOrPng
  /\ req.status = StatusBadRequest
  /\ dropped = MaxBacklog - 1

\* C19 as claimed: targetWidth = floor(W*0.15), targetHeight =
\* floor(Wh*targetWidth/Ww), padding = floor(H*0.01), x = W - targetWidth -
\* padding, y = H - targetHeight - padding.
C19_PlacementFormula ==
  transform.pc = "placed" =>
     LET targetWidth == (transform.baseWidth * 15) \div 100
         targetHeight == (transform.wHeight * targetWidth) \div transform.wWidth
         padding == transform.baseHeight \div 100
     IN transform.rect =
          [targetWidth |-> targetWidth, targetHeight |-> targetHeight,
           padding |-> padding,
           watermarkX |-> transform.baseWidth - targetWidth - padding,
           watermarkY |-> transform.baseHeight - targetHeight - padding]

\* Two premultiplied pixels of one colour: their colour channels are to each
\* other as their alphas.
SameColour(s1, s2) == s1.a > 0 /\ s2.a > 0 /\ s1.c * s2.a = s2.c * s1.a

C21_DimensionsKept ==
  transform.pc = "composed" =>
     /\ transform.dstWidth = transform.baseWidth
     /\ transform.dstHeight = transform.baseHeight
     /\ ~transform.jpeg.err =>
          /\ JpegDecodeConfig(transform.jpeg.sof).Width = transform.baseWidth
          /\ JpegDecodeConfig(transform.jpeg.sof).Height = transform.baseHeight
     /\ transform.src = transform.d

C21_Witness ==
  /\ transform.pc = "composed"
  /\ transform.hasWatermark
  /\ transform.out # transform.d
  /\ ~transform.jpeg.err
  /\ JpegDecodeConfig(transform.jpeg.sof).Width = MaxSmallSide

\* C22: GetAuthorizationToken returns an error and the empty token exactly
\* when the header is absent or empty, does not begin with "Bearer ", or has
\* nothing but white space after it; otherwise it returns no error and the
\* text after the prefix without the white space around it.
C22_BearerToken ==
  auth.pc = "token" =>
     LET h == IF auth.headers = <<>> THEN <<>> ELSE auth.headers[1]
         bearer == /\ Len(h) >= 7
                   /\ \A i \in 1..7 : h[i] = Bearer[i]
         blank == \A i \in 8..Len(h) : h[i] \in WhiteSpace
         bad == h = <<>> \/ ~bearer \/ blank
     IN /\ auth.err # "" <=> bad
        /\ bad => auth.token = <<>>
        /\ ~bad =>
             \E i \in 8..Len(h) : \E j \in i..Len(h) :
                /\ auth.token = [k \in 1..(j - i + 1) |-> h[i + k - 1]]
                /\ h[i] \notin WhiteSpace
                /\ h[j] \notin WhiteSpace
                /\ \A k \in 8..Len(h) : (k < i \/ k > j) => h[k] \in WhiteSpace

C22_Witness ==
  /\ auth.pc = "token"
  /\ auth.err = ""
  /\ Len(auth.token) = 1
  /\ Len(auth.headers[1]) = 7 + MaxTokenLen

\* The email and password of the one account that is not deleted.
Correct(email, password) == email = "test@example.com" /\ password = "password123"

\* C23: a login with an unknown email and one with a known email and a wrong
\* password get the same response, 401 "invalid email or password" without
\* token or cookie, and store nothing; a 200 is given to a correct pair only,
\* with an access token and a refresh token stored by this login; two
\* successful logins of one user carry different refresh tokens.
C23_LoginIndistinguishable ==
  [][Len(auth'.logins) = Len(auth.logins) + 1 =>
       LET l == auth'.logins[Len(auth'.logins)]
           stored == auth'.refresh_tokens \ auth.refresh_tokens
       IN /\ (l.json /\ l.Email \notin {"", "invalid-email"} /\ l.Password # ""
                 /\ ~Correct(l.Email, l.Password)) =>
                /\ l.res = [status |-> 401, message |-> "invalid email or password",
                            access_token |-> [sub |-> 0], refresh_token |-> 0,
                            cookie |-> 0]
                /\ stored = {}
          /\ l.res.status = 200 =>
                /\ Correct(l.Email, l.Password)
                /\ l.res.access_token.sub # 0
                /\ l.res.refresh_token # 0
                /\ l.res.cookie = l.res.refresh_token
                /\ stored = {[user_id |-> l.res.access_token.sub,
                              token |-> l.res.refresh_token]}
          /\ l.res.status # 200 => stored = {}
          /\ \A i \in 1..Len(auth.logins) :
                (auth.logins[i].res.status = 200 /\ l.res.status = 200
                   /\ auth.logins[i].Email = l.Email) =>
                   auth.logins[i].res.refresh_token # l.res.refresh_token]_vars

C23_Witness ==
  /\ Len(auth.logins) = 2
  /\ auth.logins[1].res.status = 200
  /\ auth.logins[2].res.status = 200
  /\ \E rows \in SUBSET auth.refresh_tokens : Cardinality(rows) = 2

\* C24: one consumer runs its deliveries one after the other: the handler is
\* started for a delivery only when none is running and the answer of the
\* one before has been sent, and a running handler is left only by sending
\* its Ack or Nack.
C24_OneAtATime ==
  [][/\ (pc' = "GetImageByID" /\ pc # "GetImageByID") =>
          /\ pc = "idle"
          /\ ackType = NoAck
          /\ m = NoTask
          /\ m' = Unmarshal(Head(msgCh))
     /\ (pc # "idle" /\ m' # m) => (pc = "ack" /\ pc' = "idle")
     /\ (pc' = "idle" /\ pc # "idle") => (pc = "ack" /\ ackType \in AckType)]_vars

C24_Witness ==
  /\ pc \notin {"idle", "ack"}
  /\ delivered = 2
  /\ msgCh # <<>>
  /\ UnmarshalOK(Head(msgCh))
  /\ Unmarshal(Head(msgCh)) # m

\* C25: with a watermark and a base image less than 7 pixels wide, that is
\* with floor(baseWidth * 0.15) <= 0, the target width is 0 and nothing is
\* drawn: every pixel of the output buffer is the pixel of the base image,
\* and the buffer is encoded.
C25_NoWatermarkBelowSeven ==
  (transform.pc = "composed" /\ transform.hasWatermark) =>
     /\ (transform.baseWidth * 15) \div 100 <= 0 <=> transform.baseWidth < 7
     /\ transform.baseWidth < 7 =>
          /\ transform.rect.targetWidth = 0
          /\ transform.out = transform.d
          /\ transform.dstWidth = transform.baseWidth
          /\ ~transform.jpeg.err

C25_Witness ==
  /\ transform.pc = "composed"
  /\ transform.hasWatermark
  /\ transform.baseWidth = 6
  /\ transform.at = [x |-> 5, y |-> transform.baseHeight - 1]
  /\ transform.d = [c |-> 0, a |-> 255]
  /\ transform.s = [c |-> 255, a |-> 255]
  /\ transform.out = transform.d
  /\ ~transform.jpeg.err

\* C26 as claimed: the watermark rectangle lies inside the base image:
\* x >= 0, y >= 0, x + targetWidth <= W and y + targetHeight <= H.
C26_RectInsideBase ==
  transform.pc = "placed" =>
     /\ transform.rect.watermarkX >= 0
     /\ transform.rect.watermarkY >= 0
     /\ transform.rect.watermarkX + transform.rect.targetWidth <= transform.baseWidth
     /\ transform.rect.watermarkY + transform.rect.targetHeight <= transform.baseHeight

\* C27 as claimed: messages that are no JSON task never use up the prefetch
\* credit of the consumer, so a task at the head of the queue of an idle
\* consumer can be delivered to it.
C27_TaskNeverStarved ==
  /\ dropped < PrefetchCount
  /\ (ready # <<>> /\ UnmarshalOK(Head(ready)) /\ msgCh = <<>> /\ pc = "idle")
       => QosAllows(Unacked)

\* The failure of the running invocation has a cause no later attempt can
\* remove: a base or watermark object that does not decode, a watermark key
\* under which no object is stored.
Permanent ==
  \/ failure = "decode" /\ blobs[img.key] = "corrupt"
  \/ failure = "wmdecode" /\ blobs[img.watermark_key.String] = "corrupt"
  \/ failure = "watermark" /\ img.watermark_key.String \notin DOMAIN blobs

\* C28 as claimed: a task is requeued a bounded number of times, also when
\* the cause of its failure is permanent: of the deliveries followed, all of
\* the one task of a one-image upload, the last does not end in a requeue.
C28_RequeueBounded ==
  (pc = "ack" /\ Permanent /\ nextImageID = 2 /\ delivered = MaxDeliveries) =>
     ackType # NackRequeue

\* C29: when the soft delete of an image lands while ProcessImage runs for
\* it, after the record was loaded, no later step of the invocation changes
\* the record: it keeps the status and processed_url it had when deleted, the
\* final update affects no row, and the invocation still returns Ack.
C29_DeleteDuringProcessing ==
  [][(pc \notin {"idle", "GetImageByID", "ack"} /\ images[m.ImageID].deleted_at) =>
       /\ images'[m.ImageID] = images[m.ImageID]
       /\ (pc = "UpdateImageByID" /\ pc' # pc) =>
            /\ pc' = "ack"
            /\ ackType' = Ack
            /\ \E u \in updates' : u.arg.Status = ImageStatusCompleted]_vars

C29_Witness ==
  /\ pc = "ack"
  /\ ackType = Ack
  /\ images[m.ImageID].deleted_at
  /\ img.status = ImageStatusPending
  /\ images[m.ImageID].status = ImageStatusPending
  /\ ~images[m.ImageID].processed_url.Valid
  /\ \E u \in updates : ~u.err

\* C30: a DELETE /images/{id} request changes no record but that of the
\* image it names, sets nothing but its deleted_at, and does so only when
\* the image is in a batch of the caller that is not deleted; an image in
\* another user's batch is left as it is, and the request is answered 200.
C30_DeleteOwnImagesOnly ==
  [][(del.pc = "new" /\ del'.pc = "done") =>
       /\ DOMAIN images' = DOMAIN images
       /\ \A i \in DOMAIN images :
            /\ images'[i] # images[i] =>
                 /\ i = del'.imageID
                 /\ images'[i] = [images[i] EXCEPT !.deleted_at = TRUE]
                 /\ batches[images[i].batch_id].user_id = del'.userID
                 /\ ~batches[images[i].batch_id].deleted_at
            /\ batches[images[i].batch_id].user_id # del'.userID =>
                 images'[i] = images[i]
       /\ (del'.imageID # 0 /\ del'.fault = "none") => del'.status = StatusOK]_vars

C30_Witness ==
  /\ del.pc = "done"
  /\ del.status = StatusOK
  /\ del.imageID \in DOMAIN images
  /\ ~images[del.imageID].deleted_at
  /\ ~batches[images[del.imageID].batch_id].deleted_at
  /\ batches[images[del.imageID].batch_id].user_id # del.userID
  /\ \E b \in DOMAIN batches : \E i \in DOMAIN images :
       /\ batches[b].user_id = del.userID
       /\ ~batches[b].deleted_at
       /\ images[i].batch_id = b
       /\ ~images[i].deleted_at

====
